---------------------------- MODULE Spec2Model ----------------------------
(***************************************************************************)
(* Model of ConversationRecordingService                                   *)
(* (src/backend/services/conversation_recording_service.py), of the pure   *)
(* methods of AudioEvaluationService                                       *)
(* (src/test_audio_transcription_evaluation.py), of the endpoint           *)
(* POST /conversation/end/{session_id} (src/backend/main.py) and of        *)
(* DatabaseService (src/backend/services/database_service.py), which has   *)
(* a specification of its own, DbSpec.                                     *)
(*                                                                         *)
(* Every public coroutine of the service is one action.  None of the       *)
(* coroutines awaits a pending future: soundfile, the pyannote pipeline    *)
(* and the OpenAI client are all called synchronously, so awaiting         *)
(* process_complete_audio, _save_complete_audio, ... runs them inline and   *)
(* a call never yields to the event loop before it returns.  Calls of       *)
(* different clients therefore interleave only between whole calls.        *)
(*                                                                         *)
(* Units.  Audio bytes are kept as sequences of "units": "a" and "b" are   *)
(* two different blocks of 5 s of 16 kHz int16 PCM, "x" is one stray byte.  *)
(* Times are counted in samples (1/16000 s), which is exact for every      *)
(* quantity the service derives from the audio; float rounding error is    *)
(* not modelled.  uuid4 identifiers, wall-clock timestamps and the          *)
(* session_name are left out of the records: no operation branches on      *)
(* them.                                                                    *)
(*                                                                         *)
(* Methods that read no state of a service are taken alone: MethodSpec     *)
(* draws one call with its arguments in method_call and the one action of  *)
(* that method stores what the call returns.  The evaluation service       *)
(* counts time in ticks of 0.1 ms, metric values are rationals             *)
(* [num, den], time strings are sequences of characters and texts are      *)
(* sequences of words.                                                     *)
(***************************************************************************)
EXTENDS Integers, Sequences, FiniteSets, TLC

\* ---------------------------------------------------------------- bounds
\* calls served by the service, over all sessions
MaxCalls == 4

\* 5 s blocks of audio in a file handed to the fallback diarization alone
MaxBlocks == 8

\* tracks of an annotation and ASR segments of a list handed to the aligner
MaxTracks == 2
MaxAsrSegments == 2

\* entries of a ground truth handed to json_to_annotation
MaxEntries == 2

\* texts of a list handed to compute_wer_metrics
MaxTexts == 2

\* participants of a session handed to _get_speaker_name
MaxParticipants == 2

\* ------------------------------------------------------- program constants
SampleRate == 16000
BytesPerSample == 2
SegmentDuration == 10

\* the uuid4 values the service draws, named in the order drawn
SessionIds == {"s1", "s2"}
NextUuid(drawn) == IF "s1" \notin drawn THEN "s1" ELSE "s2"
Projects == {"p1"}

\* a path that is None
NoPath == <<>>

\* ----------------------------------------------------------------- inputs
BlockBytes == 5 * SampleRate * BytesPerSample

Units == {"a", "b", "x"}

UnitBytes(u) == IF u = "x" THEN 1 ELSE BlockBytes

\* audio_data of one /conversation/audio-chunk request
ChunkInputs == { <<"a">>, <<"b">>, <<"x">> }

\* Strings that the service concatenates or formats are sequences of tokens.
DefaultParticipants ==
    << [id |-> "interviewer", name |-> <<"Interviewer">>],
       [id |-> "subject",     name |-> <<"Interview Subject">>] >>

CustomParticipants ==
    << [id |-> "SPEAKER_00", name |-> <<"Alice">>] >>

\* the participants argument: omitted (None), or a list
NoParticipants == [given |-> FALSE, list |-> <<>>]

ParticipantInputs ==
    { NoParticipants,
      [given |-> TRUE, list |-> <<>>],
      [given |-> TRUE, list |-> CustomParticipants] }

\* ------------------------------------------------------------- pure helpers
Min(a, b) == IF a < b THEN a ELSE b

RECURSIVE Join(_)
\* b''.join(chunks)
Join(chunks) ==
    IF chunks = <<>> THEN <<>>
    ELSE Head(chunks) \o Join(Tail(chunks))

RECURSIVE Repeat(_, _)
\* n times the unit u
Repeat(u, n) == IF n = 0 THEN <<>> ELSE << u >> \o Repeat(u, n - 1)

RECURSIVE NBytes(_)
\* len(audio_data)
NBytes(data) ==
    IF data = <<>> THEN 0
    ELSE UnitBytes(Head(data)) + NBytes(Tail(data))

\* np.frombuffer(audio_data, dtype=np.int16) raises ValueError when the
\* buffer size is not a multiple of the element size
FromBufferOk(data) == NBytes(data) % BytesPerSample = 0

\* len(audio_array): number of int16 samples
NSamples(data) == NBytes(data) \div BytesPerSample

\* participants or [default two-party list]: None and [] are both falsy
ParticipantsOrDefault(participants) ==
    IF ~participants.given \/ participants.list = <<>>
    THEN DefaultParticipants
    ELSE participants.list

\* a slip: the participants argument is dropped
NewSessionDefaultOnly(sid, project_id, participants) ==
    [ session_id      |-> sid,
      project_id      |-> project_id,
      participants    |-> DefaultParticipants,
      status          |-> "active",
      audio_chunks    |-> <<>>,
      utterances      |-> <<>>,
      audio_file_path |-> NoPath ]

\* session_data built by start_recording_session
NewSession(sid, project_id, participants) ==
    [ session_id      |-> sid,
      project_id      |-> project_id,
      participants    |-> ParticipantsOrDefault(participants),
      status          |-> "active",
      audio_chunks    |-> <<>>,
      utterances      |-> <<>>,
      audio_file_path |-> NoPath ]

\* a slip: the new chunk is put before the others
PrependChunk(chunks, audio_data) == << audio_data >> \o chunks

\* session['audio_chunks'].append(audio_data)
AppendChunk(chunks, audio_data) == Append(chunks, audio_data)

\* ------------------------------------------------------------ diarization
\* what self.diarization_pipeline(audio_file_path, hook=hook) can do
AnnotationInputs ==
    { << [start |-> 0, end |-> 80012, speaker |-> "SPEAKER_00"] >>,
      << [start |-> 0,     end |-> 80012,  speaker |-> "SPEAKER_00"],
         [start |-> 80012, end |-> 160000, speaker |-> "SPEAKER_03"] >> }

EngineOutcomes ==
    { [raised |-> TRUE, annotation |-> <<>>] }
    \cup { [raised |-> FALSE, annotation |-> a] : a \in AnnotationInputs }

\* f'SPEAKER_{speaker_id:02d}' for the two fallback speakers
SpeakerLabel(speaker_id) == << "SPEAKER_00", "SPEAKER_01" >>[speaker_id + 1]

RECURSIVE FallbackSegmentsUnclipped(_, _, _)
\* a slip: the last window is not cut at the end of the audio
FallbackSegmentsUnclipped(current_time, speaker_id, duration) ==
    IF current_time < duration
    THEN LET end_time == current_time + SegmentDuration * SampleRate
         IN  << [start |-> current_time, end |-> end_time,
                 speaker |-> SpeakerLabel(speaker_id)] >>
             \o FallbackSegmentsUnclipped(end_time, (speaker_id + 1) % 2, duration)
    ELSE <<>>

RECURSIVE FallbackSegments(_, _, _)
\* the while loop of _fallback_speaker_diarization, times in samples
FallbackSegments(current_time, speaker_id, duration) ==
    IF current_time < duration
    THEN LET end_time == Min(current_time + SegmentDuration * SampleRate, duration)
         IN  << [start |-> current_time, end |-> end_time,
                 speaker |-> SpeakerLabel(speaker_id)] >>
             \o FallbackSegments(end_time, (speaker_id + 1) % 2, duration)
    ELSE <<>>

\* the three kinds of object the diarization step hands on; only a pyannote
\* Annotation has the method itertracks
Annotation(segments) == [kind |-> "Annotation", segments |-> segments]
MockDiarization(segments) == [kind |-> "MockDiarization", segments |-> segments]
EmptyDiarization == [kind |-> "EmptyDiarization", segments |-> <<>>]

\* file: [exists, data], the WAV written by _save_complete_audio;
\* read_ok: whether sf.read succeeds on it
FallbackSpeakerDiarization(file, read_ok) ==
    IF file.exists /\ read_ok
    THEN MockDiarization(FallbackSegments(0, 0, NSamples(file.data)))
    ELSE EmptyDiarization

\* a slip: no except around the engine call, its exception leaves the step
ProcessSpeakerDiarizationNoExcept(pipeline, engine, file, read_ok) ==
    IF ~pipeline
    THEN [exc |-> FALSE, value |-> FallbackSpeakerDiarization(file, read_ok)]
    ELSE IF engine.raised
         THEN [exc |-> TRUE, value |-> EmptyDiarization]
         ELSE [exc |-> FALSE, value |-> Annotation(engine.annotation)]

\* [exc, value]: exc is TRUE when an exception leaves the step
ProcessSpeakerDiarization(pipeline, engine, file, read_ok) ==
    IF ~pipeline
    THEN [exc |-> FALSE, value |-> FallbackSpeakerDiarization(file, read_ok)]
    ELSE IF engine.raised
         THEN [exc |-> FALSE, value |-> FallbackSpeakerDiarization(file, read_ok)]
         ELSE [exc |-> FALSE, value |-> Annotation(engine.annotation)]

\* ----------------------------------------------------------- transcription
\* verbose_json answers of client.audio.transcriptions.create for the file
TranscriptInputs ==
    { << [start |-> 0,     end |-> 80012,  text |-> <<"hello">>, avg_logprob |-> "-0.25"],
         [start |-> 80012, end |-> 160000, text |-> <<"world">>, avg_logprob |-> "-0.5"] >> }

\* one request to the speech-to-text engine: it raises or answers
AsrOutcomes ==
    { [raised |-> TRUE, segments |-> <<>>] }
    \cup { [raised |-> FALSE, segments |-> t] : t \in TranscriptInputs }

RECURSIVE FullText(_)
\* transcript.text: the text of the whole file
FullText(segments) ==
    IF segments = <<>> THEN <<>>
    ELSE Head(segments).text \o FullText(Tail(segments))

\* _transcribe_audio_segment: the whole file is sent, start_time and
\* end_time are not used
TranscribeAudioSegment(openai_available, response) ==
    IF ~openai_available
    THEN [text |-> << "[Transcription not available]" >>, confidence |-> "0.0"]
    ELSE IF response.raised
         THEN [text |-> << "[Transcription failed]" >>, confidence |-> "0.0"]
         ELSE [text |-> FullText(response.segments),
               confidence |-> IF response.segments # <<>>
                              THEN response.segments[1].avg_logprob
                              ELSE "0.95"]

\* the default names of _get_speaker_name
SpeakerMapping ==
    [ SPEAKER_00 |-> <<"Interviewer">>,
      SPEAKER_01 |-> <<"Interview Subject">>,
      SPEAKER_02 |-> <<"Additional Speaker">> ]

RECURSIVE ParticipantName(_, _)
\* the loop over session['participants']: the first id match, else <<>>
ParticipantName(participants, speaker_id) ==
    IF participants = <<>> THEN <<>>
    ELSE IF Head(participants).id = speaker_id
         THEN Head(participants).name
         ELSE ParticipantName(Tail(participants), speaker_id)

\* a slip: the default names are looked at before the participants
GetSpeakerNameDefaultFirst(participants, speaker_id) ==
    IF speaker_id \in DOMAIN SpeakerMapping
    THEN SpeakerMapping[speaker_id]
    ELSE IF \E i \in 1..Len(participants) : participants[i].id = speaker_id
         THEN ParticipantName(participants, speaker_id)
         ELSE << "Speaker", speaker_id >>

\* _get_speaker_name(session, speaker_id), participants being
\* session['participants']
GetSpeakerName(participants, speaker_id) ==
    IF \E i \in 1..Len(participants) : participants[i].id = speaker_id
    THEN ParticipantName(participants, speaker_id)
    ELSE IF speaker_id \in DOMAIN SpeakerMapping
         THEN SpeakerMapping[speaker_id]
         ELSE << "Speaker", speaker_id >>

\* f"{int(t//60):02d}:{int(t%60):02d}" of a time in samples, as <<MM, SS>>
FormatTime(t) ==
    LET secs == t \div SampleRate
    IN  << secs \div 60, secs % 60 >>

\* int(duration * 1000) of a duration in samples: truncation
DurationMs(duration) == (duration * 1000) \div SampleRate

\* the utterance record built for one track, before and after transcription
Utterance(segment, participants, openai_available, response) ==
    LET transcription == TranscribeAudioSegment(openai_available, response)
    IN  [ speaker_id   |-> segment.speaker,
          speaker_name |-> GetSpeakerName(participants, segment.speaker),
          start_time   |-> FormatTime(segment.start),
          end_time     |-> FormatTime(segment.end),
          duration     |-> DurationMs(segment.end - segment.start),
          text         |-> IF openai_available THEN transcription.text ELSE <<>>,
          confidence   |-> IF openai_available THEN transcription.confidence
                           ELSE "0.95" ]

\* _transcribe_speaker_segments: diarization_result.itertracks raises
\* AttributeError on the two fallback objects, and the except returns []
TranscribeSpeakerSegments(diarization_result, participants, openai_available, responses) ==
    IF diarization_result.kind # "Annotation"
    THEN <<>>
    ELSE [ i \in 1..Len(diarization_result.segments) |->
             Utterance(diarization_result.segments[i], participants,
                       openai_available, responses[i]) ]

\* the requests _transcribe_speaker_segments sends to the engine
AsrRequests(diarization_result, openai_available) ==
    IF diarization_result.kind = "Annotation" /\ openai_available
    THEN Len(diarization_result.segments)
    ELSE 0

\* ------------------------------------------------------------ persistence
\* session_dir / "complete_audio.wav" and session_dir / "transcription.json"
AudioPath(sid) == << sid, "complete_audio.wav" >>
TranscriptionPath(sid) == << sid, "transcription.json" >>

NoAudioFile == [exists |-> FALSE, data |-> <<>>]

NoBundle ==
    [ session_id |-> "none", project_id |-> "none", participants |-> <<>>,
      utterances |-> <<>>, audio_file_path |-> NoPath,
      processing_method |-> "none" ]

NoTranscriptionFile == [exists |-> FALSE, data |-> NoBundle]

\* a slip: the end of the buffer is not written
SaveCompleteAudioTruncated(file, audio_data, write_ok) ==
    IF FromBufferOk(audio_data) /\ write_ok
    THEN [exc |-> FALSE,
          file |-> [exists |-> TRUE,
                    data |-> SubSeq(audio_data, 1, Len(audio_data) - 1)]]
    ELSE [exc |-> TRUE,  file |-> file]

\* _save_complete_audio: np.frombuffer, then sf.write at 16 kHz; write_ok
\* is whether sf.write succeeds.  A failed write leaves the old file.
SaveCompleteAudio(file, audio_data, write_ok) ==
    IF FromBufferOk(audio_data) /\ write_ok
    THEN [exc |-> FALSE, file |-> [exists |-> TRUE, data |-> audio_data]]
    ELSE [exc |-> TRUE,  file |-> file]

\* a slip: the bundle is written without the utterances
TranscriptionDataNoUtterances(session) ==
    [ session_id        |-> session.session_id,
      project_id        |-> session.project_id,
      participants      |-> session.participants,
      utterances        |-> <<>>,
      audio_file_path   |-> session.audio_file_path,
      processing_method |-> "pyannote-audio" ]

\* transcription_data of _save_transcription
TranscriptionData(session) ==
    [ session_id        |-> session.session_id,
      project_id        |-> session.project_id,
      participants      |-> session.participants,
      utterances        |-> session.utterances,
      audio_file_path   |-> session.audio_file_path,
      processing_method |-> "pyannote-audio" ]

\* --------------------------------------------------- process_complete_audio
\* What the collaborators do during one call: sf.write, the diarization
\* engine, sf.read, the speech-to-text engine once per request, json.dump.
\* A collaborator the call does not reach is given one fixed answer.
EngineRaised == [raised |-> TRUE, annotation |-> <<>>]
AsrRaised == [raised |-> TRUE, segments |-> <<>>]

\* sf.write fails, or the buffer is rejected before it
WriteFails ==
    [ write_ok |-> FALSE, engine |-> EngineRaised, read_ok |-> FALSE,
      responses |-> <<>>, save_ok |-> FALSE ]

\* no engine, or the engine raises: sf.read of the fallback, then json.dump
FallbackEnvironments ==
    [ write_ok : {TRUE}, engine : {EngineRaised}, read_ok : BOOLEAN,
      responses : {<<>>}, save_ok : BOOLEAN ]

\* the engine answers: one speech-to-text request per track when the
\* openai package is there, then json.dump
AnsweredEnvironments(openai_available) ==
    UNION { [ write_ok : {TRUE}, engine : {eng}, read_ok : {FALSE},
              responses : IF openai_available
                          THEN [1..Len(eng.annotation) -> AsrOutcomes]
                          ELSE {[i \in 1..Len(eng.annotation) |-> AsrRaised]},
              save_ok : BOOLEAN ] : eng \in EngineOutcomes \ {EngineRaised} }

Environments(pipeline, openai_available) ==
    {WriteFails} \cup FallbackEnvironments
    \cup (IF pipeline THEN AnsweredEnvironments(openai_available) ELSE {})

\* every environment, whatever the service was built with
AllEnvironments == Environments(TRUE, TRUE)

\* e \in Environments(pipeline, openai_available), for e in AllEnvironments
EnvironmentFits(e, pipeline, openai_available) ==
    ~e.engine.raised =>
        /\ pipeline
        /\ openai_available \/ \A i \in DOMAIN e.responses : e.responses[i] = AsrRaised

\* process_complete_audio does not reach json.dump
ProcessEnvironmentFits(e, pipeline, openai_available) ==
    /\ EnvironmentFits(e, pipeline, openai_available)
    /\ e.save_ok \/ ~e.write_ok

\* a slip: the exception of _save_complete_audio is swallowed and the
\* pipeline goes on over whatever file is there
ProcessCompleteAudioAfterFailedSave(session, file, pipeline, openai_available, e) ==
    LET saved == SaveCompleteAudio(file, Join(session.audio_chunks), e.write_ok)
        diar  == ProcessSpeakerDiarization(pipeline, e.engine, saved.file, e.read_ok)
        utterances == TranscribeSpeakerSegments(diar.value, session.participants,
                                                openai_available, e.responses)
    IN  [ error |-> FALSE,
          session |-> [session EXCEPT
                         !.utterances = utterances,
                         !.audio_file_path = AudioPath(session.session_id),
                         !.status = "processed"],
          file |-> saved.file,
          status |-> "processed",
          utterances |-> utterances,
          audio_file_path |-> AudioPath(session.session_id),
          audio_saved |-> ~saved.exc,
          engine |-> IF ~pipeline THEN "unconfigured"
                     ELSE IF e.engine.raised THEN "raised" ELSE "answered",
          diarization |-> diar.value,
          asr_requests |-> AsrRequests(diar.value, openai_available) ]

\* a slip: the chunk buffer is emptied once it has been joined, so a run
\* that fails leaves nothing to run again over
ProcessCompleteAudioClearsChunks(session, file, pipeline, openai_available, e) ==
    LET saved == SaveCompleteAudio(file, Join(session.audio_chunks), e.write_ok)
        r == ProcessCompleteAudioAfterFailedSave(session, file, pipeline,
                                                 openai_available, e)
    IN  IF saved.exc
        THEN [ r EXCEPT !.error = TRUE,
                        !.session = [session EXCEPT !.audio_chunks = <<>>],
                        !.status = "none", !.utterances = <<>>,
                        !.audio_file_path = NoPath, !.audio_saved = FALSE,
                        !.engine = "not_run", !.diarization = EmptyDiarization,
                        !.asr_requests = 0 ]
        ELSE [ r EXCEPT !.session.audio_chunks = <<>> ]

\* the body of process_complete_audio for a registered session: the session
\* and the audio file after it, and what it returns
ProcessCompleteAudio(session, file, pipeline, openai_available, e) ==
    LET combined_audio == Join(session.audio_chunks)
        saved == SaveCompleteAudio(file, combined_audio, e.write_ok)
        diar  == ProcessSpeakerDiarization(pipeline, e.engine, saved.file, e.read_ok)
        utterances == TranscribeSpeakerSegments(diar.value, session.participants,
                                                openai_available, e.responses)
        failed == [ error |-> TRUE, session |-> session, file |-> saved.file,
                    status |-> "none", utterances |-> <<>>,
                    audio_file_path |-> NoPath,
                    audio_saved |-> ~saved.exc,
                    engine |-> "not_run", diarization |-> EmptyDiarization,
                    asr_requests |-> 0 ]
        engine_state == IF ~pipeline THEN "unconfigured"
                        ELSE IF e.engine.raised THEN "raised" ELSE "answered"
    IN  IF saved.exc THEN failed
        ELSE IF diar.exc THEN [failed EXCEPT !.engine = engine_state]
        ELSE [ error |-> FALSE,
               session |-> [session EXCEPT
                              !.utterances = utterances,
                              !.audio_file_path = AudioPath(session.session_id),
                              !.status = "processed"],
               file |-> saved.file,
               status |-> "processed",
               utterances |-> utterances,
               audio_file_path |-> AudioPath(session.session_id),
               audio_saved |-> TRUE,
               engine |-> engine_state,
               diarization |-> diar.value,
               asr_requests |-> AsrRequests(diar.value, openai_available) ]

\* ------------------------------------------------------------------ state
VARIABLES
    active_sessions,       \* self.active_sessions: session id -> session data
    storage,               \* the files under self.storage_path, per session
    diarization_pipeline,  \* whether self.diarization_pipeline is loaded
    OPENAI_AVAILABLE,      \* whether import openai succeeded
    used,                  \* the uuid4 values drawn so far
    accepted,              \* per id, the chunks acknowledged with 'stored'
    pipeline_runs,         \* per id, the complete runs of the pipeline
    end_called,            \* the ids end_recording_session was called with
    calls,                 \* the number of calls served so far
    last,                  \* the last call: its arguments, what it did and returned
    method_call,           \* one call of a method taken alone: arguments and result
    db_service,            \* the DatabaseService: use_database, _memory_projects
    database,              \* the rows of the table projects, by id
    db_call                \* the last call of the DatabaseService and its result

vars == << active_sessions, storage, diarization_pipeline, OPENAI_AVAILABLE,
           used, accepted, pipeline_runs, end_called, calls, last, method_call,
           db_service, database, db_call >>

NoCall ==
    [ op |-> "none", sid |-> "none", outcome |-> "none", status |-> "none",
      pre_status |-> "none", status_writes |-> <<>>,
      participants_arg |-> NoParticipants, chunk_count |-> 0,
      utterances |-> <<>>, audio_file_path |-> NoPath,
      transcription_file_path |-> NoPath, combined |-> <<>>,
      audio_saved |-> FALSE, engine |-> "not_run",
      diarization |-> EmptyDiarization, fallback_read_ok |-> FALSE,
      asr_log |-> <<>>, utterance_count |-> 0, raised_by |-> "none" ]

\* no method is being looked at alone
NoMethodCall ==
    [ method |-> "none", args |-> [none |-> TRUE], returned |-> FALSE,
      result |-> [none |-> TRUE] ]

\* no project: an empty dict, an empty table
NoProjects == [p \in {} |-> "none"]

\* the value None of load_project
NoProjectData == "None"

NoDbCall ==
    [ op |-> "none", id |-> "none", saved |-> FALSE, value |-> NoProjectData ]

\* a DatabaseService that is not used
NoDatabaseService == [use_database |-> FALSE, memory_projects |-> NoProjects]

\* one more call is served
Served ==
    /\ calls < MaxCalls
    /\ calls' = calls + 1

\* the status a call finds: "unknown" when the id is not registered
PreStatus(sid) ==
    IF sid \in DOMAIN active_sessions THEN active_sessions[sid].status
    ELSE "unknown"

\* the call as it starts: which operation, on which id, in which state
Call(op, sid) ==
    [NoCall EXCEPT !.op = op, !.sid = sid, !.pre_status = PreStatus(sid)]

\* raise ValueError(f"Session {session_id} not found")
NotFound(op, sid) ==
    /\ last' = [Call(op, sid) EXCEPT !.outcome = "session_not_found"]
    /\ UNCHANGED << active_sessions, storage, used, accepted, pipeline_runs >>

\* __init__: the pipeline is loaded only with pyannote and HF_TOKEN present
Init ==
    /\ active_sessions = [s \in {} |-> NoBundle]
    /\ storage = [s \in SessionIds |->
                    [audio |-> NoAudioFile, transcription |-> NoTranscriptionFile]]
    /\ diarization_pipeline \in BOOLEAN
    /\ OPENAI_AVAILABLE \in BOOLEAN
    /\ used = {}
    /\ accepted = [s \in SessionIds |-> <<>>]
    /\ pipeline_runs = [s \in SessionIds |-> 0]
    /\ end_called = {}
    /\ calls = 0
    /\ last = NoCall
    /\ method_call = NoMethodCall
    /\ db_service = NoDatabaseService
    /\ database = NoProjects
    /\ db_call = NoDbCall

\* the registry with session registered (or replaced) under sid
Register(sid, session) ==
    [s \in DOMAIN active_sessions \cup {sid} |->
        IF s = sid THEN session ELSE active_sessions[s]]

\* a slip: the registry is cleared instead of one key deleted
UnregisterAll(sid) ==
    [s \in {} |-> NoBundle]

\* del self.active_sessions[session_id]
Unregister(sid) ==
    [s \in DOMAIN active_sessions \ {sid} |-> active_sessions[s]]

\* start_recording_session; mkdir_ok is whether session_dir.mkdir succeeds
start_recording_session(project_id, participants, mkdir_ok) ==
    \E sid \in {NextUuid(used)} \ used :
        /\ Served
        /\ used' = used \cup {sid}
        /\ IF mkdir_ok
           THEN /\ active_sessions' = Register(sid, NewSession(sid, project_id, participants))
                /\ last' = [Call("start_recording_session", sid) EXCEPT
                               !.outcome = "returned",
                               !.participants_arg = participants]
           ELSE /\ UNCHANGED active_sessions
                /\ last' = [Call("start_recording_session", sid) EXCEPT
                               !.outcome = "raised",
                               !.raised_by = "mkdir",
                               !.participants_arg = participants]
        /\ UNCHANGED << storage, diarization_pipeline, OPENAI_AVAILABLE,
                        accepted, pipeline_runs, end_called, method_call,
                        db_service, database, db_call >>

\* process_audio_chunk
process_audio_chunk(sid, audio_data) ==
    /\ Served
    /\ IF sid \notin DOMAIN active_sessions
       THEN NotFound("process_audio_chunk", sid)
       ELSE LET chunks == AppendChunk(active_sessions[sid].audio_chunks, audio_data)
            IN  /\ active_sessions' =
                        [active_sessions EXCEPT ![sid].audio_chunks = chunks]
                /\ accepted' = [accepted EXCEPT ![sid] = Append(@, audio_data)]
                /\ last' = [Call("process_audio_chunk", sid) EXCEPT
                               !.outcome = "returned",
                               !.status = "stored",
                               !.chunk_count = Len(chunks)]
                /\ UNCHANGED << storage, used, pipeline_runs >>
    /\ UNCHANGED << diarization_pipeline, OPENAI_AVAILABLE, end_called, method_call,
                    db_service, database, db_call >>

\* what a run of the pipeline adds to the record of the call
Observed(call, r, e) ==
    [call EXCEPT
        !.combined = Join(active_sessions[call.sid].audio_chunks),
        !.audio_saved = r.audio_saved,
        !.engine = r.engine,
        !.diarization = r.diarization,
        !.fallback_read_ok = (r.engine \in {"unconfigured", "raised"} /\ e.read_ok),
        !.asr_log = SubSeq(e.responses, 1, r.asr_requests),
        !.utterances = r.utterances,
        !.utterance_count = Len(r.utterances),
        !.audio_file_path = r.audio_file_path]

\* process_complete_audio, called by a client
process_complete_audio(sid, e) ==
    /\ Served
    /\ ProcessEnvironmentFits(e, diarization_pipeline, OPENAI_AVAILABLE)
    /\ IF sid \notin DOMAIN active_sessions
       THEN NotFound("process_complete_audio", sid)
       ELSE LET r == ProcessCompleteAudio(active_sessions[sid], storage[sid].audio,
                                          diarization_pipeline, OPENAI_AVAILABLE, e)
                call == Observed(Call("process_complete_audio", sid), r, e)
            IN  /\ active_sessions' = [active_sessions EXCEPT ![sid] = r.session]
                /\ storage' = [storage EXCEPT ![sid].audio = r.file]
                /\ pipeline_runs' = [pipeline_runs EXCEPT
                                        ![sid] = IF r.error THEN @ ELSE @ + 1]
                /\ last' = IF r.error
                           THEN [call EXCEPT !.outcome = "error"]
                           ELSE [call EXCEPT !.outcome = "returned",
                                             !.status = "processed",
                                             !.status_writes = << "processed" >>]
                /\ UNCHANGED << used, accepted >>
    /\ UNCHANGED << diarization_pipeline, OPENAI_AVAILABLE, end_called, method_call,
                    db_service, database, db_call >>

\* end_recording_session; e.save_ok is whether _save_transcription succeeds
end_recording_session(sid, e) ==
    /\ Served
    /\ EnvironmentFits(e, diarization_pipeline, OPENAI_AVAILABLE)
    /\ end_called' = end_called \cup {sid}
    /\ IF sid \notin DOMAIN active_sessions
       THEN NotFound("end_recording_session", sid)
       ELSE LET session == [active_sessions[sid] EXCEPT !.status = "processing"]
                r == ProcessCompleteAudio(session, storage[sid].audio,
                                          diarization_pipeline, OPENAI_AVAILABLE, e)
                call == Observed(Call("end_recording_session", sid), r, e)
            IN  /\ pipeline_runs' = [pipeline_runs EXCEPT
                                        ![sid] = IF r.error THEN @ ELSE @ + 1]
                /\ UNCHANGED << used, accepted >>
                /\ IF r.error
                   THEN \* if 'error' in result: return result
                        /\ active_sessions' = [active_sessions EXCEPT ![sid] = r.session]
                        /\ storage' = [storage EXCEPT ![sid].audio = r.file]
                        /\ last' = [call EXCEPT !.outcome = "error",
                                                !.status_writes = << "processing" >>]
                   ELSE IF ~e.save_ok
                   THEN \* the exception of _save_transcription leaves the call
                        /\ active_sessions' = [active_sessions EXCEPT ![sid] = r.session]
                        /\ storage' = [storage EXCEPT ![sid].audio = r.file]
                        /\ last' = [call EXCEPT
                                       !.outcome = "raised",
                                       !.raised_by = "_save_transcription",
                                       !.status_writes = << "processing", "processed" >>,
                                       !.utterances = <<>>,
                                       !.utterance_count = 0,
                                       !.audio_file_path = NoPath]
                   ELSE /\ active_sessions' = Unregister(sid)
                        /\ storage' = [storage EXCEPT
                                          ![sid].audio = r.file,
                                          ![sid].transcription =
                                              [exists |-> TRUE,
                                               data |-> TranscriptionData(r.session)]]
                        /\ last' = [call EXCEPT
                                       !.outcome = "returned",
                                       !.status = "completed",
                                       !.status_writes = << "processing", "processed" >>,
                                       !.transcription_file_path = TranscriptionPath(sid)]
    /\ UNCHANGED << diarization_pipeline, OPENAI_AVAILABLE, method_call,
                    db_service, database, db_call >>

Next ==
    \/ \E project_id \in Projects, participants \in ParticipantInputs, mkdir_ok \in BOOLEAN :
          start_recording_session(project_id, participants, mkdir_ok)
    \/ \E sid \in SessionIds, audio_data \in ChunkInputs :
          process_audio_chunk(sid, audio_data)
    \/ \E sid \in SessionIds, e \in AllEnvironments :
          process_complete_audio(sid, e)
    \/ \E sid \in SessionIds, e \in AllEnvironments :
          end_recording_session(sid, e)

Spec == Init /\ [][Next]_vars

\* -------------------------------------------------------- DatabaseService
\* (src/backend/services/database_service.py).  A project is its id and
\* the values of its fields, taken as one value; a row of the table
\* projects holds the fields save_project writes.
ProjectIds == { "p1", "p2", "invalid-uuid" }

ProjectFields == { "v1", "v2" }

ProjectInputs == [id : ProjectIds, fields : ProjectFields]

\* the column id is a UUID: a query or an insert with another string fails
ValidUuid(project_id) == project_id # "invalid-uuid"

\* d[project_id] = fields
PutProject(d, project_id, fields) ==
    [p \in DOMAIN d \cup {project_id} |->
        IF p = project_id THEN fields ELSE d[p]]

\* save_project: [saved, service, rows].  The cache is written first;
\* db_ok is whether query, insert or update and commit go through.
SaveProject(service, rows, project_data, db_ok) ==
    LET cached == [service EXCEPT !.memory_projects =
                      PutProject(@, project_data.id, project_data.fields)]
    IN  IF ~service.use_database
        THEN [saved |-> TRUE, service |-> cached, rows |-> rows]
        ELSE IF db_ok /\ ValidUuid(project_data.id)
             THEN [ saved |-> TRUE, service |-> cached,
                    rows |-> PutProject(rows, project_data.id, project_data.fields) ]
             ELSE [saved |-> FALSE, service |-> cached, rows |-> rows]

\* load_project: [value, service].  The cache is asked first; a row found
\* in the database is put in the cache.
LoadProject(service, rows, project_id, db_ok) ==
    IF project_id \in DOMAIN service.memory_projects
    THEN [value |-> service.memory_projects[project_id], service |-> service]
    ELSE IF ~service.use_database
    THEN [value |-> NoProjectData, service |-> service]
    ELSE IF db_ok /\ ValidUuid(project_id) /\ project_id \in DOMAIN rows
    THEN [ value |-> rows[project_id],
           service |-> [service EXCEPT !.memory_projects =
                           PutProject(@, project_id, rows[project_id])] ]
    ELSE [value |-> NoProjectData, service |-> service]

\* __init__: use_database is USE_DATABASE = true and a database that
\* answers; the table starts without rows
DbInit ==
    /\ active_sessions = [s \in {} |-> NoBundle]
    /\ storage = [s \in SessionIds |->
                    [audio |-> NoAudioFile, transcription |-> NoTranscriptionFile]]
    /\ diarization_pipeline = FALSE
    /\ OPENAI_AVAILABLE = FALSE
    /\ used = {}
    /\ accepted = [s \in SessionIds |-> <<>>]
    /\ pipeline_runs = [s \in SessionIds |-> 0]
    /\ end_called = {}
    /\ calls = 0
    /\ last = NoCall
    /\ method_call = NoMethodCall
    /\ db_service \in [use_database : BOOLEAN, memory_projects : {NoProjects}]
    /\ database = NoProjects
    /\ db_call = NoDbCall

save_project(project_data, db_ok) ==
    /\ Served
    /\ LET r == SaveProject(db_service, database, project_data, db_ok)
       IN  /\ db_service' = r.service
           /\ database' = r.rows
           /\ db_call' = [ op |-> "save_project", id |-> project_data.id,
                           saved |-> r.saved, value |-> NoProjectData ]
    /\ UNCHANGED << active_sessions, storage, diarization_pipeline,
                    OPENAI_AVAILABLE, used, accepted, pipeline_runs,
                    end_called, last, method_call >>

load_project(project_id, db_ok) ==
    /\ Served
    /\ LET r == LoadProject(db_service, database, project_id, db_ok)
       IN  /\ db_service' = r.service
           /\ db_call' = [ op |-> "load_project", id |-> project_id,
                           saved |-> FALSE, value |-> r.value ]
    /\ UNCHANGED << active_sessions, storage, diarization_pipeline,
                    OPENAI_AVAILABLE, used, accepted, pipeline_runs,
                    end_called, last, method_call, database >>

DbNext ==
    \/ \E project_data \in ProjectInputs, db_ok \in BOOLEAN :
          save_project(project_data, db_ok)
    \/ \E project_id \in ProjectIds, db_ok \in BOOLEAN :
          load_project(project_id, db_ok)

DbSpec == DbInit /\ [][DbNext]_vars

\* ------------------------------------- POST /conversation/end/{session_id}
\* (src/backend/main.py).  service is what end_recording_session did:
\* [raised, result], result being the dict it returned with 'error' as
\* whether the key error is in it.  The response is [code, status,
\* audio_file_path, transcription_file_path, utterance_count].
EndConversationRecording(session_id, service) ==
    IF service.raised
    THEN [ code |-> 500, session_id |-> session_id, status |-> "none",
           audio_file_path |-> NoPath, transcription_file_path |-> NoPath,
           utterance_count |-> 0 ]
    ELSE [ code |-> 200, session_id |-> session_id, status |-> "completed",
           audio_file_path |-> service.result.audio_file_path,
           transcription_file_path |-> service.result.transcription_file_path,
           utterance_count |-> Len(service.result.utterances) ]

\* ------------------------------------------------ AudioEvaluationService
\* (src/test_audio_transcription_evaluation.py).  Its times are float
\* seconds; here they are whole ticks of 0.1 ms.  pyannote.core calls a
\* segment shorter than 1 microsecond empty, which is below a tick.
Seconds(n) == n * 10000

Max(a, b) == IF a > b THEN a ELSE b

\* the labels an annotation may carry, in the order of sorted(..., key=str)
LabelOrder == << "A", "B", "SPEAKER_00" >>

\* best_speaker = None
NoSpeaker == "None"

\* the place of a label in LabelOrder
LabelRank(k) == CHOOSE i \in 1..Len(LabelOrder) : LabelOrder[i] = k

\* pyannote keeps the tracks of an annotation sorted by segment
TrackBefore(a, b) ==
    \/ a.start < b.start
    \/ a.start = b.start /\ a.end < b.end
    \/ a.start = b.start /\ a.end = b.end /\ LabelRank(a.speaker) < LabelRank(b.speaker)

RECURSIVE SortedTracks(_)
SortedTracks(tracks) ==
    IF tracks = {} THEN <<>>
    ELSE LET first == CHOOSE a \in tracks : \A b \in tracks \ {a} : TrackBefore(a, b)
         IN  << first >> \o SortedTracks(tracks \ {first})

\* diarization.labels(): the labels of the annotation, sorted
AnnotationLabels(diarization) ==
    SelectSeq(LabelOrder,
              LAMBDA k : \E i \in 1..Len(diarization.segments) :
                            diarization.segments[i].speaker = k)

\* diarization.label_timeline(speaker): the set of the label's segments
LabelTimeline(diarization, speaker) ==
    { [start |-> diarization.segments[i].start, end |-> diarization.segments[i].end] :
         i \in { j \in 1..Len(diarization.segments) :
                    diarization.segments[j].speaker = speaker } }

\* a slip: the intersection is the first segment
IntersectionFirst(a, b) ==
    [start |-> a.start, end |-> a.end]

\* speaker_segment & asr_segment
Intersection(a, b) ==
    [start |-> Max(a.start, b.start), end |-> Min(a.end, b.end)]

\* bool(segment): the segment is not empty
NonEmpty(segment) == segment.end - segment.start > 0

\* segment.duration
Duration(segment) == IF NonEmpty(segment) THEN segment.end - segment.start ELSE 0

\* what one speaker_segment adds to overlap_duration
SegmentOverlap(speaker_segment, asr_segment) ==
    LET intersection == Intersection(speaker_segment, asr_segment)
    IN  IF NonEmpty(intersection) THEN Duration(intersection) ELSE 0

RECURSIVE OverlapDuration(_, _)
\* the inner loop: overlap_duration summed over the timeline
OverlapDuration(timeline, asr_segment) ==
    IF timeline = {} THEN 0
    ELSE LET speaker_segment == CHOOSE g \in timeline : TRUE
         IN  SegmentOverlap(speaker_segment, asr_segment)
             + OverlapDuration(timeline \ {speaker_segment}, asr_segment)

RECURSIVE BestSpeakerLastPositive(_, _, _, _)
\* a slip: best_overlap is not updated
BestSpeakerLastPositive(labels, diarization, asr_segment, best) ==
    IF labels = <<>> THEN best
    ELSE LET overlap_duration ==
                 OverlapDuration(LabelTimeline(diarization, Head(labels)), asr_segment)
         IN  BestSpeakerLastPositive(Tail(labels), diarization, asr_segment,
                 IF overlap_duration > best.best_overlap
                 THEN [best_speaker |-> Head(labels), best_overlap |-> best.best_overlap]
                 ELSE best)

RECURSIVE BestSpeakerGreaterEqual(_, _, _, _)
\* a slip: >= in place of >
BestSpeakerGreaterEqual(labels, diarization, asr_segment, best) ==
    IF labels = <<>> THEN best
    ELSE LET overlap_duration ==
                 OverlapDuration(LabelTimeline(diarization, Head(labels)), asr_segment)
         IN  BestSpeakerGreaterEqual(Tail(labels), diarization, asr_segment,
                 IF overlap_duration >= best.best_overlap
                 THEN [best_speaker |-> Head(labels), best_overlap |-> overlap_duration]
                 ELSE best)

RECURSIVE BestSpeaker(_, _, _, _)
\* the loop over diarization.labels(): a label replaces the best one only
\* with a strictly greater overlap
BestSpeaker(labels, diarization, asr_segment, best) ==
    IF labels = <<>> THEN best
    ELSE LET overlap_duration ==
                 OverlapDuration(LabelTimeline(diarization, Head(labels)), asr_segment)
         IN  BestSpeaker(Tail(labels), diarization, asr_segment,
                 IF overlap_duration > best.best_overlap
                 THEN [best_speaker |-> Head(labels), best_overlap |-> overlap_duration]
                 ELSE best)

\* a slip: None is passed on
SpeakerIdOrNone(best_speaker) == best_speaker

\* best_speaker if best_speaker else "UNKNOWN"
SpeakerIdOrUnknown(best_speaker) ==
    IF best_speaker # NoSpeaker THEN best_speaker ELSE "UNKNOWN"

\* speaker_map of AudioEvaluationService._get_speaker_name
EvaluationSpeakerMap ==
    [ SPEAKER_00 |-> <<"Speaker 1">>,
      SPEAKER_01 |-> <<"Speaker 2">>,
      SPEAKER_02 |-> <<"Speaker 3">> ]

\* AudioEvaluationService._get_speaker_name
EvaluationSpeakerName(speaker_id) ==
    IF speaker_id = NoSpeaker \/ speaker_id = "UNKNOWN"
    THEN << "Unknown" >>
    ELSE IF speaker_id \in DOMAIN EvaluationSpeakerMap
         THEN EvaluationSpeakerMap[speaker_id]
         ELSE << "Speaker", speaker_id >>

\* f"{int(t//60):02d}:{int(t%60):02d}" of a time in ticks, as <<MM, SS>>
FormatSeconds(t) ==
    LET secs == t \div Seconds(1)
    IN  << secs \div 60, secs % 60 >>

\* int(d * 1000) of a difference d of times in ticks: towards zero
IntMillis(d) == IF d >= 0 THEN d \div 10 ELSE -((-d) \div 10)

\* the utterance record of one ASR segment
AlignedUtterance(diarization, seg) ==
    LET best == BestSpeaker(AnnotationLabels(diarization), diarization,
                            [start |-> seg.start, end |-> seg.end],
                            [best_speaker |-> NoSpeaker, best_overlap |-> 0])
    IN  [ speaker_id   |-> SpeakerIdOrUnknown(best.best_speaker),
          speaker_name |-> EvaluationSpeakerName(best.best_speaker),
          start_time   |-> FormatSeconds(seg.start),
          end_time     |-> FormatSeconds(seg.end),
          duration     |-> IntMillis(seg.end - seg.start),
          text         |-> seg.text,
          confidence   |-> "0.95" ]

\* assign_speakers_to_segments
AssignSpeakersToSegments(diarization, asr_segments) ==
    [ i \in 1..Len(asr_segments) |-> AlignedUtterance(diarization, asr_segments[i]) ]

\* ---- transcription of the whole file
\* getattr(transcript, 'duration', 300.0)
DefaultDuration == Seconds(300)

\* the ASR segment made of one segment of the response
AsrSegment(seg) == [start |-> seg.start, end |-> seg.end, text |-> seg.text]

\* transcribe_full_audio: [exc, error, value].  transcript is what
\* transcriptions.create does: it raises, or answers with a text, with or
\* without the attribute segments, with or without the attribute duration.
TranscribeFullAudio(openai_client, transcript) ==
    IF ~openai_client
    THEN [exc |-> TRUE, error |-> "ValueError", value |-> <<>>]
    ELSE IF transcript.raised
    THEN [exc |-> TRUE, error |-> "Exception", value |-> <<>>]
    ELSE IF transcript.segments.given /\ transcript.segments.list # <<>>
    THEN [ exc |-> FALSE, error |-> "none",
           value |-> [ i \in 1..Len(transcript.segments.list) |->
                         AsrSegment(transcript.segments.list[i]) ] ]
    ELSE LET duration == IF transcript.duration.given
                         THEN transcript.duration.value ELSE DefaultDuration
         IN  [ exc |-> FALSE, error |-> "none",
               value |-> << [start |-> 0, end |-> duration,
                             text |-> transcript.text] >> ]

\* ---- ground truth.  A string is the sequence of its characters.
Digits == << "0", "1", "2", "3", "4", "5", "6", "7", "8", "9" >>

IsDigit(c) == \E i \in 1..Len(Digits) : Digits[i] = c

DigitValue(c) == (CHOOSE i \in 1..Len(Digits) : Digits[i] = c) - 1

RECURSIVE SplitAt(_, _, _)
\* str.split(sep): part is the piece being read
SplitAt(str, sep, part) ==
    IF str = <<>> THEN << part >>
    ELSE IF Head(str) = sep
         THEN << part >> \o SplitAt(Tail(str), sep, <<>>)
         ELSE SplitAt(Tail(str), sep, Append(part, Head(str)))

RECURSIVE Decimal(_, _)
\* the value of a string of digits read after acc
Decimal(part, acc) ==
    IF part = <<>> THEN acc
    ELSE Decimal(Tail(part), 10 * acc + DigitValue(Head(part)))

AllDigits(part) ==
    /\ part # <<>>
    /\ \A i \in 1..Len(part) : IsDigit(part[i])

\* int(part): ValueError unless part is a string of digits
IntOf(part) ==
    IF AllDigits(part)
    THEN [exc |-> FALSE, value |-> Decimal(part, 0)]
    ELSE [exc |-> TRUE, value |-> 0]

\* float(time_str) in ticks, for digits with up to four decimals;
\* ValueError for what is not a number
FloatOf(str) ==
    LET parts == SplitAt(str, ".", <<>>)
    IN  IF Len(parts) = 1 /\ AllDigits(parts[1])
        THEN [exc |-> FALSE, value |-> Seconds(Decimal(parts[1], 0))]
        ELSE IF Len(parts) = 2 /\ AllDigits(parts[1]) /\ AllDigits(parts[2])
                /\ Len(parts[2]) <= 4
             THEN [exc |-> FALSE,
                   value |-> Seconds(Decimal(parts[1], 0))
                             + Decimal(parts[2] \o Repeat("0", 4 - Len(parts[2])), 0)]
             ELSE [exc |-> TRUE, value |-> 0]

\* _time_to_seconds, in ticks: [exc, value]
TimeToSeconds(time_str) ==
    LET parts == SplitAt(time_str, ":", <<>>)
        p == [i \in 1..Len(parts) |-> IntOf(parts[i])]
    IN  IF Len(parts) = 2
        THEN [exc |-> p[1].exc \/ p[2].exc,
              value |-> Seconds(p[1].value * 60 + p[2].value)]
        ELSE IF Len(parts) = 3
             THEN [exc |-> p[1].exc \/ p[2].exc \/ p[3].exc,
                   value |-> Seconds(p[1].value * 3600 + p[2].value * 60 + p[3].value)]
             ELSE FloatOf(time_str)

\* a value of start_time or end_time: the key is absent, or it holds a
\* number (in ticks) or a string
AbsentTime == [kind |-> "absent", number |-> 0, string |-> <<>>]
NumberTime(n) == [kind |-> "number", number |-> n, string |-> <<>>]
StringTime(str) == [kind |-> "string", number |-> 0, string |-> str]

\* the body of the loop of json_to_annotation up to the Segment:
\* [error, start, end, speaker].  segment.get('end_time', start + 1.0)
\* computes start + 1.0 whether or not the key is there, which is a
\* TypeError when start is a string.
EntrySegment(segment) ==
    LET start == IF segment.start_time.kind = "absent"
                 THEN NumberTime(0) ELSE segment.start_time
        end   == IF segment.end_time.kind = "absent"
                 THEN NumberTime(start.number + Seconds(1)) ELSE segment.end_time
        speaker == IF segment.speaker.given THEN segment.speaker.label ELSE "UNKNOWN"
        parsed == TimeToSeconds(end.string)
        failed(error) == [error |-> error, start |-> 0, end |-> 0, speaker |-> speaker]
    IN  IF start.kind = "string" THEN failed("TypeError")
        ELSE IF end.kind = "string" /\ parsed.exc THEN failed("ValueError")
        ELSE [ error |-> "none",
               start |-> start.number,
               end |-> IF end.kind = "string" THEN parsed.value ELSE end.number,
               speaker |-> speaker ]

\* annotation[Segment(start, end)] = speaker: pyannote adds no empty
\* segment, and the one track name '_' lets a segment carry one label
SetTrack(tracks, start, end, speaker) ==
    IF NonEmpty([start |-> start, end |-> end])
    THEN { t \in tracks : ~(t.start = start /\ t.end = end) }
         \cup { [start |-> start, end |-> end, speaker |-> speaker] }
    ELSE tracks

RECURSIVE AddEntries(_, _)
\* the loop of json_to_annotation over the entries left, tracks so far
AddEntries(segments, tracks) ==
    IF segments = <<>>
    THEN [error |-> "none", tracks |-> tracks]
    ELSE LET g == EntrySegment(Head(segments))
         IN  IF g.error # "none"
             THEN [error |-> g.error, tracks |-> tracks]
             ELSE AddEntries(Tail(segments), SetTrack(tracks, g.start, g.end, g.speaker))

\* json_to_annotation: [exc, error, annotation]
JsonToAnnotation(ground_truth) ==
    LET added == AddEntries(IF ground_truth.segments.given
                            THEN ground_truth.segments.list ELSE <<>>, {})
    IN  [ exc |-> added.error # "none",
          error |-> added.error,
          annotation |-> IF added.error # "none" THEN Annotation(<<>>)
                         ELSE Annotation(SortedTracks(added.tracks)) ]

\* ---- metrics.  A metric value is the fraction num/den, den > 0; a text
\* is the sequence of its words.
Rational(num, den) == [num |-> num, den |-> den]

RECURSIVE JoinTexts(_)
\* " ".join(texts) as jiwer reads it: the words of the texts, in order
JoinTexts(texts) ==
    IF texts = <<>> THEN <<>>
    ELSE Head(texts) \o JoinTexts(Tail(texts))

RECURSIVE EditDistance(_, _)
\* the least number of substituted, deleted and inserted words
EditDistance(ref, hyp) ==
    IF ref = <<>> THEN Len(hyp)
    ELSE IF hyp = <<>> THEN Len(ref)
    ELSE Min(EditDistance(Tail(ref), Tail(hyp))
                + (IF Head(ref) = Head(hyp) THEN 0 ELSE 1),
             Min(EditDistance(Tail(ref), hyp) + 1,
                 EditDistance(ref, Tail(hyp)) + 1))

\* What jiwer does with a reference without words is not fixed by the
\* repository, which pins no version: it raises ValueError ("one or more
\* references are empty strings"), or it answers with the errors counted.
EmptyReferenceOutcomes == { "raises", "answers" }

\* jiwer.wer(ref_text, hyp_text): [raised, value]
Wer(ref, hyp, on_empty) ==
    IF ref = <<>>
    THEN [raised |-> on_empty = "raises", value |-> Rational(EditDistance(ref, hyp), 1)]
    ELSE [raised |-> FALSE, value |-> Rational(EditDistance(ref, hyp), Len(ref))]

\* compute_wer_metrics: [exc, WER]
ComputeWerMetrics(reference_texts, hypothesis_texts, jiwer_available, on_empty) ==
    IF ~jiwer_available
    THEN [exc |-> FALSE, WER |-> Rational(-1, 1)]
    ELSE LET wer_score == Wer(JoinTexts(reference_texts),
                              JoinTexts(hypothesis_texts), on_empty)
         IN  [exc |-> wer_score.raised, WER |-> wer_score.value]

\* the answers of DiarizationErrorRate() and JaccardErrorRate() of
\* pyannote.metrics for a pair of annotations
MetricOutcomes ==
    [ DER : { Rational(0, 1), Rational(1, 2), Rational(3, 2) },
      JER : { Rational(0, 1), Rational(1, 2), Rational(1, 1) } ]

\* compute_diarization_metrics: the two library answers, or -1.0 twice
\* when pyannote.metrics could not be imported
ComputeDiarizationMetrics(predicted, reference, pyannote_available, metrics) ==
    IF ~pyannote_available
    THEN [DER |-> Rational(-1, 1), JER |-> Rational(-1, 1)]
    ELSE [DER |-> metrics.DER, JER |-> metrics.JER]

\* ------------------------------------------------- methods taken alone
\* A method that is a function of its arguments is also looked at alone:
\* MethodInit draws the arguments of one call, the action of the method
\* applies it.  The service itself stays as constructed.
\* WAV files of 0 .. MaxBlocks blocks of 5 s, then 0, 1 or 3 more samples
FallbackInputs ==
    { [ file |-> [exists |-> TRUE,
                  data |-> Repeat("a", n) \o Repeat("x", BytesPerSample * m)],
        read_ok |-> ok ] : n \in 0..MaxBlocks, m \in {0, 1, 3}, ok \in BOOLEAN }

\* the tracks an annotation handed to the aligner is made of
TrackInputs ==
    { [start |-> Seconds(g[1]), end |-> Seconds(g[2]), speaker |-> k] :
         g \in { <<0, 10>>, <<10, 20>>, <<0, 20>> }, k \in {"A", "B"} }
    \cup { [start |-> Seconds(20), end |-> Seconds(30), speaker |-> "SPEAKER_00"] }

AlignerAnnotations ==
    { Annotation(SortedTracks(tracks)) :
         tracks \in { t \in SUBSET TrackInputs : Cardinality(t) <= MaxTracks } }

\* ASR segments, one of them ending 0.6 ms after a whole millisecond
AsrSegmentInputs ==
    { [start |-> Seconds(5),  end |-> Seconds(12), text |-> <<"hello">>],
      [start |-> Seconds(11), end |-> Seconds(12) + 6, text |-> <<"hi">>],
      [start |-> Seconds(5),  end |-> Seconds(15), text |-> <<"world">>],
      [start |-> Seconds(30), end |-> Seconds(40), text |-> <<"bye">>] }

AlignerInputs ==
    { [diarization |-> d, asr_segments |-> a] :
         d \in AlignerAnnotations,
         a \in UNION { [1..n -> AsrSegmentInputs] : n \in 0..MaxAsrSegments } }

\* values of start_time and of end_time in a ground-truth entry
StartTimeInputs ==
    { AbsentTime, NumberTime(Seconds(5)),
      StringTime(<< "0", "0", ":", "0", "5" >>),
      StringTime(<< "0", "1", ":", "0", "0", ":", "0", "5" >>) }

EndTimeInputs ==
    { AbsentTime,
      StringTime(<< "0", "0", ":", "1", "0" >>),
      StringTime(<< "0", "1", ":", "0", "0", ":", "0", "5" >>),
      StringTime(<< "0", "0", ":", "0", "5" >>),
      StringTime(<< "0", ":", "0", ".", "5" >>) }

\* entries without 'speaker', and entries of speaker A with numbers as times
EntryInputs ==
    [ start_time : StartTimeInputs, end_time : EndTimeInputs,
      speaker : { [given |-> FALSE, label |-> "UNKNOWN"] } ]
    \cup [ start_time : { NumberTime(Seconds(5)) },
           end_time : { AbsentTime, NumberTime(Seconds(10)) },
           speaker : { [given |-> TRUE, label |-> "A"] } ]

\* ground_truth: the key 'segments' is absent, or holds a list of entries
GroundTruthInputs ==
    { [segments |-> [given |-> FALSE, list |-> <<>>]] }
    \cup { [segments |-> [given |-> TRUE, list |-> l]] :
              l \in UNION { [1..n -> EntryInputs] : n \in 0..MaxEntries } }

TextInputs == { <<>>, << "a" >>, << "a", "b" >> }

TextListInputs == UNION { [1..n -> TextInputs] : n \in 0..MaxTexts }

\* without jiwer its answer is never asked for
WerInputs ==
    { [ reference_texts |-> r, hypothesis_texts |-> h,
        jiwer_available |-> TRUE, on_empty |-> o ] :
          r \in TextListInputs, h \in TextListInputs, o \in EmptyReferenceOutcomes }
    \cup { [ reference_texts |-> r, hypothesis_texts |-> h,
             jiwer_available |-> FALSE,
             on_empty |-> "raises" ] :
               r \in TextListInputs, h \in TextListInputs }

MetricAnnotations ==
    { Annotation(<<>>),
      Annotation(<< [start |-> 0, end |-> Seconds(10), speaker |-> "A"] >>),
      Annotation(<< [start |-> 0, end |-> Seconds(10), speaker |-> "B"] >>) }

\* without pyannote.metrics its answers are never asked for
DiarizationMetricInputs ==
    { [ predicted |-> p, reference |-> r, pyannote_available |-> TRUE, metrics |-> m ] :
          p \in MetricAnnotations, r \in MetricAnnotations, m \in MetricOutcomes }
    \cup { [ predicted |-> p, reference |-> r, pyannote_available |-> FALSE,
             metrics |-> [DER |-> Rational(0, 1), JER |-> Rational(0, 1)] ] :
               p \in MetricAnnotations, r \in MetricAnnotations }

\* pairs of segments between 0 s and 20 s, empty ones and pairs that only
\* touch or lie 0.1 ms apart among them
SegmentEnds == { 0, Seconds(5), Seconds(10), Seconds(10) + 1, Seconds(20) }

SegmentInputs == [start : SegmentEnds, end : SegmentEnds]

OverlapInputs == [a : SegmentInputs, b : SegmentInputs]

\* what end_recording_session can do for the endpoint: raise, return the
\* error result of process_complete_audio, or return the completed result
EndResults(sid) ==
    { [ raised |-> TRUE,
        result |-> [ error |-> FALSE, status |-> "none", audio_file_path |-> NoPath,
                     transcription_file_path |-> NoPath, utterances |-> <<>> ] ],
      [ raised |-> FALSE,
        result |-> [ error |-> TRUE, status |-> "none", audio_file_path |-> NoPath,
                     transcription_file_path |-> NoPath, utterances |-> <<>> ] ] }
    \cup { [ raised |-> FALSE,
             result |-> [ error |-> FALSE, status |-> "completed",
                          audio_file_path |-> AudioPath(sid),
                          transcription_file_path |-> TranscriptionPath(sid),
                          utterances |-> u ] ] :
              u \in { <<>>, << "u1" >>, << "u1", "u2" >> } }

EndpointInputs ==
    UNION { { [session_id |-> sid, service |-> r] : r \in EndResults(sid) } :
            sid \in SessionIds }

\* audio of 10 s and of 300 s
AudioDurations == { Seconds(10), Seconds(300) }

\* the segments of a response over audio of duration d: the attribute is
\* not there, or holds no, one or two segments
ResponseSegments(d) ==
    { [given |-> FALSE, list |-> <<>>],
      [given |-> TRUE,  list |-> <<>>],
      [given |-> TRUE,  list |-> << [start |-> 0, end |-> d, text |-> <<"hello", "world">>] >>],
      [given |-> TRUE,  list |-> << [start |-> 0, end |-> Seconds(4), text |-> <<"hello">>],
                                    [start |-> Seconds(4), end |-> d, text |-> <<"world">>] >>] }

\* what the engine does with audio of duration d: a duration it reports is
\* the one of the audio
TranscriptResponses(d) ==
    { [ raised |-> TRUE, segments |-> [given |-> FALSE, list |-> <<>>],
        duration |-> [given |-> FALSE, value |-> 0], text |-> <<>> ] }
    \cup { [ raised |-> FALSE, segments |-> g, duration |-> u,
             text |-> <<"hello", "world">> ] :
              g \in ResponseSegments(d),
              u \in { [given |-> FALSE, value |-> 0], [given |-> TRUE, value |-> d] } }

\* self.openai_client is set or None; the file at audio_path lasts
\* audio_duration
FullAudioInputs ==
    UNION { { [ openai_client |-> c, audio_duration |-> d, transcript |-> t ] :
                 c \in BOOLEAN, t \in TranscriptResponses(d) } :
            d \in AudioDurations }

\* the participants a client may give, two of them under one id
NamedParticipants ==
    { [id |-> "SPEAKER_00", name |-> <<"Alice">>],
      [id |-> "SPEAKER_00", name |-> <<"Bob">>],
      [id |-> "SPEAKER_05", name |-> <<"Carol">>],
      [id |-> "subject",    name |-> <<"Dan">>] }

\* sessions as start_recording_session builds them, and labels with and
\* without a default name
SpeakerNameInputs ==
    { [ session |-> NewSession("s1", "p1", [given |-> TRUE, list |-> l]),
        speaker_id |-> k ] :
          l \in UNION { [1..n -> NamedParticipants] : n \in 0..MaxParticipants },
          k \in { "SPEAKER_00", "SPEAKER_01", "SPEAKER_05", "SPEAKER_07", "subject" } }

MethodCalls ==
    { [NoMethodCall EXCEPT !.method = "_fallback_speaker_diarization", !.args = a] :
          a \in FallbackInputs }
    \cup { [NoMethodCall EXCEPT !.method = "assign_speakers_to_segments", !.args = a] :
              a \in AlignerInputs }
    \cup { [NoMethodCall EXCEPT !.method = "json_to_annotation",
                                !.args = [ground_truth |-> g]] :
              g \in GroundTruthInputs }
    \cup { [NoMethodCall EXCEPT !.method = "compute_wer_metrics", !.args = a] :
              a \in WerInputs }
    \cup { [NoMethodCall EXCEPT !.method = "compute_diarization_metrics", !.args = a] :
              a \in DiarizationMetricInputs }
    \cup { [NoMethodCall EXCEPT !.method = "_get_speaker_name", !.args = a] :
              a \in SpeakerNameInputs }
    \cup { [NoMethodCall EXCEPT !.method = "transcribe_full_audio", !.args = a] :
              a \in FullAudioInputs }
    \cup { [NoMethodCall EXCEPT !.method = "segment_overlap", !.args = a] :
              a \in OverlapInputs }
    \cup { [NoMethodCall EXCEPT !.method = "end_conversation_recording", !.args = a] :
              a \in EndpointInputs }

MethodInit ==
    /\ active_sessions = [s \in {} |-> NoBundle]
    /\ storage = [s \in SessionIds |->
                    [audio |-> NoAudioFile, transcription |-> NoTranscriptionFile]]
    /\ diarization_pipeline = FALSE
    /\ OPENAI_AVAILABLE = FALSE
    /\ used = {}
    /\ accepted = [s \in SessionIds |-> <<>>]
    /\ pipeline_runs = [s \in SessionIds |-> 0]
    /\ end_called = {}
    /\ calls = 0
    /\ last = NoCall
    /\ method_call \in MethodCalls
    /\ db_service = NoDatabaseService
    /\ database = NoProjects
    /\ db_call = NoDbCall

\* the drawn call returns result
Returns(result) ==
    /\ ~method_call.returned
    /\ method_call' = [method_call EXCEPT !.returned = TRUE, !.result = result]
    /\ UNCHANGED << active_sessions, storage, diarization_pipeline,
                    OPENAI_AVAILABLE, used, accepted, pipeline_runs,
                    end_called, calls, last, db_service, database, db_call >>

fallback_speaker_diarization ==
    /\ method_call.method = "_fallback_speaker_diarization"
    /\ Returns([value |-> FallbackSpeakerDiarization(method_call.args.file,
                                                     method_call.args.read_ok)])

assign_speakers_to_segments ==
    /\ method_call.method = "assign_speakers_to_segments"
    /\ Returns([value |-> AssignSpeakersToSegments(method_call.args.diarization,
                                                   method_call.args.asr_segments)])

json_to_annotation ==
    /\ method_call.method = "json_to_annotation"
    /\ Returns(JsonToAnnotation(method_call.args.ground_truth))

compute_wer_metrics ==
    /\ method_call.method = "compute_wer_metrics"
    /\ Returns(ComputeWerMetrics(method_call.args.reference_texts,
                                 method_call.args.hypothesis_texts,
                                 method_call.args.jiwer_available,
                                 method_call.args.on_empty))

compute_diarization_metrics ==
    /\ method_call.method = "compute_diarization_metrics"
    /\ Returns(ComputeDiarizationMetrics(method_call.args.predicted,
                                         method_call.args.reference,
                                         method_call.args.pyannote_available,
                                         method_call.args.metrics))

\* the overlap of two segments as the aligner takes it, both ways round
segment_overlap ==
    /\ method_call.method = "segment_overlap"
    /\ Returns([ ab |-> SegmentOverlap(method_call.args.a, method_call.args.b),
                 ba |-> SegmentOverlap(method_call.args.b, method_call.args.a) ])

end_conversation_recording ==
    /\ method_call.method = "end_conversation_recording"
    /\ Returns(EndConversationRecording(method_call.args.session_id,
                                        method_call.args.service))

transcribe_full_audio ==
    /\ method_call.method = "transcribe_full_audio"
    /\ Returns(TranscribeFullAudio(method_call.args.openai_client,
                                   method_call.args.transcript))

\* the name returned, and the session as the call leaves it
get_speaker_name ==
    /\ method_call.method = "_get_speaker_name"
    /\ Returns([ value |-> GetSpeakerName(method_call.args.session.participants,
                                          method_call.args.speaker_id),
                 session |-> method_call.args.session ])

MethodNext ==
    \/ fallback_speaker_diarization
    \/ assign_speakers_to_segments
    \/ json_to_annotation
    \/ compute_wer_metrics
    \/ compute_diarization_metrics
    \/ get_speaker_name
    \/ transcribe_full_audio
    \/ segment_overlap
    \/ end_conversation_recording

MethodSpec == MethodInit /\ [][MethodNext]_vars

\* ------------------------------------------------------------------ claims
IsStart == last.op = "start_recording_session"
IsChunk == last.op = "process_audio_chunk"
IsProcess == last.op = "process_complete_audio"
IsEnd == last.op = "end_recording_session"

SpecStatuses == {"active", "processing", "completed"}

SpecStep(a, b) ==
    \/ a = b
    \/ a = "active" /\ b = "processing"
    \/ a = "processing" /\ b = "completed"

\* C1: a session's status only ever holds active, processing or completed,
\* and every write of it during a call either leaves it as it is or takes
\* the step active -> processing or processing -> completed.
C1_StatusOnlyAdvances ==
    /\ \A s \in DOMAIN active_sessions : active_sessions[s].status \in SpecStatuses
    /\ last.pre_status \in SpecStatuses =>
          LET chain == << last.pre_status >> \o last.status_writes
          IN  \A i \in 1..(Len(chain) - 1) :
                 chain[i + 1] \in SpecStatuses /\ SpecStep(chain[i], chain[i + 1])

\* C2: a process_audio_chunk call on an id that is unknown or whose session
\* is not in status active fails with session-not-found and stores nothing.
C2_ChunkOnlyWhileActive ==
    [][ (last'.op = "process_audio_chunk" /\ PreStatus(last'.sid) # "active")
          => /\ last'.outcome = "session_not_found"
             /\ active_sessions' = active_sessions
             /\ accepted' = accepted ]_vars

\* C3: once end_recording_session has been called with an id, every later
\* end_recording_session and process_audio_chunk call with that id fails
\* with session-not-found, whatever the first call returned.
C3_EndIsOneShot ==
    [][ (last'.op \in {"end_recording_session", "process_audio_chunk"}
           /\ last'.sid \in end_called)
          => last'.outcome = "session_not_found" ]_vars

\* C4: the pipeline (combine, diarize, build utterances) runs to its end
\* at most once for a session, and exactly once for a completed session.
C4_PipelineRunsOnce ==
    \A s \in SessionIds :
        /\ pipeline_runs[s] <= 1
        /\ storage[s].transcription.exists => pipeline_runs[s] = 1

\* C5: one call sends at most one request to the speech-to-text engine.
C5_OneAsrRequest == Len(last.asr_log) <= 1

\* C6: the audio file a run of the pipeline writes for a session holds the
\* chunks acknowledged for that session, concatenated in the order of
\* their acknowledgement, and nothing else.
C6_AssetIsAcceptedChunksInOrder ==
    ((IsEnd \/ IsProcess) /\ last.audio_saved)
        => storage[last.sid].audio =
              [exists |-> TRUE, data |-> Join(accepted[last.sid])]

\* C6 witness: an end call has written the asset of a session that was
\* sent two different chunks.
C6_Witness ==
    /\ IsEnd /\ last.audio_saved
    /\ Len(accepted[last.sid]) = 2
    /\ accepted[last.sid][1] # accepted[last.sid][2]

\* C7 as claimed: a successful start registers a session under an id that
\* was not registered, active, with no chunks, holding the default
\* participants when none were given and the given list otherwise.
C7_StartStoresParticipantsAsGiven ==
    [][ (last'.op = "start_recording_session" /\ last'.outcome = "returned")
          => /\ last'.sid \notin DOMAIN active_sessions
             /\ last'.sid \in DOMAIN active_sessions'
             /\ active_sessions'[last'.sid].status = "active"
             /\ active_sessions'[last'.sid].audio_chunks = <<>>
             /\ active_sessions'[last'.sid].participants =
                    IF last'.participants_arg.given
                    THEN last'.participants_arg.list
                    ELSE DefaultParticipants ]_vars

\* C7 as amended: as above, but the default participants are also stored
\* when the given list is empty; a non-empty list is stored as given.
C7_StartStoresNonEmptyParticipants ==
    [][ (last'.op = "start_recording_session" /\ last'.outcome = "returned")
          => /\ last'.sid \notin DOMAIN active_sessions
             /\ last'.sid \in DOMAIN active_sessions'
             /\ active_sessions'[last'.sid].status = "active"
             /\ active_sessions'[last'.sid].audio_chunks = <<>>
             /\ active_sessions'[last'.sid].participants =
                    IF last'.participants_arg.given
                       /\ last'.participants_arg.list # <<>>
                    THEN last'.participants_arg.list
                    ELSE DefaultParticipants ]_vars

\* C7 witness: a start given a non-empty list has stored that list.
C7_Witness ==
    /\ IsStart /\ last.outcome = "returned"
    /\ last.participants_arg.given
    /\ last.participants_arg.list = CustomParticipants
    /\ active_sessions[last.sid].participants = CustomParticipants
    /\ active_sessions[last.sid].status = "active"

\* C8: when the diarization engine is not loaded or raises, the step hands
\* on the windowed fallback over the saved audio (the empty annotation when
\* the fallback fails to read it), the call returns no error result, and
\* the only exception that leaves end is the one of _save_transcription.
C8_DiarizationFailureAbsorbed ==
    ((IsEnd \/ IsProcess) /\ last.engine \in {"unconfigured", "raised"})
        => /\ last.diarization =
                 IF last.fallback_read_ok
                 THEN MockDiarization(FallbackSegments(0, 0, NSamples(last.combined)))
                 ELSE EmptyDiarization
           /\ last.outcome \in {"returned", "raised"}
           /\ last.outcome = "raised" => last.raised_by = "_save_transcription"

\* C8 witness: the engine raised during an end call on a session with
\* audio, the fallback windows were produced and end returned completed.
C8_Witness ==
    /\ IsEnd /\ last.engine = "raised"
    /\ last.outcome = "returned" /\ last.status = "completed"
    /\ last.diarization.kind = "MockDiarization"
    /\ Len(last.diarization.segments) >= 1

\* C9: an end call that completes with the fallback annotation over audio
\* of positive duration returns one utterance per fallback segment.
C9_FallbackYieldsUtterances ==
    (IsEnd /\ last.outcome = "returned"
       /\ last.diarization.kind = "MockDiarization"
       /\ NSamples(last.combined) > 0)
        => /\ Len(last.utterances) = Len(last.diarization.segments)
           /\ Len(last.utterances) > 0

\* C10: the utterances returned by end are, one for one and in order, the
\* segments of the single transcription of the session, each with the text
\* of its own segment.
C10_OneUtterancePerAsrSegment ==
    (IsEnd /\ last.outcome = "returned"
       /\ Len(last.asr_log) >= 1 /\ ~last.asr_log[1].raised)
        => /\ Len(last.asr_log) = 1
           /\ Len(last.utterances) = Len(last.asr_log[1].segments)
           /\ \A i \in 1..Len(last.utterances) :
                 last.utterances[i].text = last.asr_log[1].segments[i].text

\* C11: an end call on a registered session that did not write the audio
\* asset, or that left no transcript bundle in the session's storage,
\* reports a failure (an error result or an exception) and does not
\* return status completed.
C11_PersistFailureReported ==
    (IsEnd /\ last.pre_status # "unknown"
       /\ (~last.audio_saved \/ ~storage[last.sid].transcription.exists))
        => /\ last.outcome \in {"error", "raised"}
           /\ last.status # "completed"

\* C11 witness: json.dump failed in an end call whose audio asset was
\* written; the exception left the call and no bundle is stored.
C11_Witness ==
    /\ IsEnd /\ last.audio_saved
    /\ last.raised_by = "_save_transcription"
    /\ ~storage[last.sid].transcription.exists
    /\ last.outcome = "raised"

\* the other case of C11: the audio asset could not be written
C11_WitnessAudio ==
    /\ IsEnd /\ last.pre_status # "unknown" /\ ~last.audio_saved
    /\ last.outcome = "error"

\* what a step leaves alone: every session other than sid is registered
\* after it exactly if it was before, with the same status and chunk buffer
OthersUntouched(sid) ==
    \A s \in SessionIds \ {sid} :
        /\ (s \in DOMAIN active_sessions') = (s \in DOMAIN active_sessions)
        /\ s \in DOMAIN active_sessions =>
              /\ active_sessions'[s].status = active_sessions[s].status
              /\ active_sessions'[s].audio_chunks = active_sessions[s].audio_chunks

\* the result of a call is decided by the entry of its own id alone
OwnResult(sid) ==
    /\ last'.op = "start_recording_session" /\ last'.outcome = "returned" =>
          /\ sid \notin DOMAIN active_sessions
          /\ active_sessions'[sid].status = "active"
          /\ active_sessions'[sid].audio_chunks = <<>>
    /\ last'.op = "process_audio_chunk" =>
          IF sid \in DOMAIN active_sessions
          THEN /\ last'.outcome = "returned"
               /\ last'.chunk_count = Len(active_sessions[sid].audio_chunks) + 1
               /\ Len(active_sessions'[sid].audio_chunks) = last'.chunk_count
          ELSE last'.outcome = "session_not_found"
    /\ last'.op \in {"process_complete_audio", "end_recording_session"} =>
          IF sid \in DOMAIN active_sessions
          THEN /\ last'.outcome # "session_not_found"
               /\ last'.combined = Join(active_sessions[sid].audio_chunks)
          ELSE last'.outcome = "session_not_found"

\* some session other than sid is in status processing
OtherInProcessing(sid) ==
    \E t \in DOMAIN active_sessions \ {sid} :
        active_sessions[t].status = "processing"

\* C12: a call on one session id leaves the registry membership, status
\* and chunk buffer of every other session as they were, its result is
\* decided by its own session alone, and while another session is in
\* status processing, chunk and end calls on a registered session are
\* served.
C12_SessionsIndependent ==
    [][ /\ OthersUntouched(last'.sid)
        /\ OwnResult(last'.sid)
        /\ \A s \in DOMAIN active_sessions :
              OtherInProcessing(s) =>
                 /\ ENABLED process_audio_chunk(s, <<"a">>)
                 /\ ENABLED end_recording_session(s, WriteFails) ]_vars

\* C12 witness: with one session left in status processing by a failed
\* end, an end call on the other session has completed.
C12_Witness ==
    /\ IsEnd /\ last.outcome = "returned" /\ last.status = "completed"
    /\ \E t \in DOMAIN active_sessions \ {last.sid} :
          active_sessions[t].status = "processing"

\* the drawn call was a call of method and has returned
Returned(method) == method_call.method = method /\ method_call.returned

\* C13: over audio of D > 0 samples the fallback diarization returns the
\* windows [10k s, min(10(k+1) s, D)) for k = 0 .. ceil(D / 10 s) - 1, the
\* k-th labelled SPEAKER_0(k mod 2): they start at 0, end at D and each
\* starts where the one before ends.  Over 40 s they are (0,10,S0),
\* (10,20,S1), (20,30,S0), (30,40,S1).
C13_FallbackWindows ==
    LET D == NSamples(method_call.args.file.data)
        W == 10 * SampleRate
        r == method_call.result.value
    IN  (Returned("_fallback_speaker_diarization")
           /\ method_call.args.read_ok /\ D > 0)
        => /\ r.kind = "MockDiarization"
           /\ Len(r.segments) = (D + W - 1) \div W
           /\ \A i \in 1..Len(r.segments) :
                 /\ r.segments[i].start = W * (i - 1)
                 /\ r.segments[i].end = Min(W * i, D)
                 /\ r.segments[i].start < r.segments[i].end
                 /\ r.segments[i].speaker =
                        IF (i - 1) % 2 = 0 THEN "SPEAKER_00" ELSE "SPEAKER_01"
                 /\ i > 1 => r.segments[i].start = r.segments[i - 1].end
           /\ r.segments[1].start = 0
           /\ r.segments[Len(r.segments)].end = D
           /\ D = 40 * SampleRate =>
                 r.segments =
                    << [start |-> 0,              end |-> 10 * SampleRate, speaker |-> "SPEAKER_00"],
                       [start |-> 10 * SampleRate, end |-> 20 * SampleRate, speaker |-> "SPEAKER_01"],
                       [start |-> 20 * SampleRate, end |-> 30 * SampleRate, speaker |-> "SPEAKER_00"],
                       [start |-> 30 * SampleRate, end |-> 40 * SampleRate, speaker |-> "SPEAKER_01"] >>

\* C13 witness: the fallback has returned four windows over 40 s of audio.
C13_Witness ==
    /\ Returned("_fallback_speaker_diarization")
    /\ NSamples(method_call.args.file.data) = 40 * SampleRate
    /\ Len(method_call.result.value.segments) = 4

\* ---- the aligner, as the claims state it
\* the labels carried by the tracks of an annotation
PresentLabels(diarization) ==
    { diarization.segments[j].speaker : j \in 1..Len(diarization.segments) }

RECURSIVE Overlap(_, _, _)
\* overlap(s, k): the sum over the segments g of k, taken from segments,
\* of max(0, min(s.end, g.end) - max(s.start, g.start))
Overlap(s, k, segments) ==
    IF segments = <<>> THEN 0
    ELSE (IF Head(segments).speaker = k
          THEN Max(0, Min(s.end, Head(segments).end) - Max(s.start, Head(segments).start))
          ELSE 0)
         + Overlap(s, k, Tail(segments))

\* the greatest overlap of s with a label of the annotation, 0 without labels
MaxOverlap(s, diarization) ==
    LET all == { Overlap(s, k, diarization.segments) : k \in PresentLabels(diarization) }
    IN  IF all = {} THEN 0 ELSE CHOOSE m \in all : \A o \in all : o <= m

\* the labels whose overlap with s is the greatest one
Maximizers(s, diarization) ==
    { k \in PresentLabels(diarization) :
         Overlap(s, k, diarization.segments) = MaxOverlap(s, diarization) }

\* the index of the first track of label k
FirstTrack(k, diarization) ==
    CHOOSE j \in 1..Len(diarization.segments) :
        /\ diarization.segments[j].speaker = k
        /\ \A i \in 1..(j - 1) : diarization.segments[i].speaker # k

AlignerReturned == Returned("assign_speakers_to_segments")

\* C14: every utterance the aligner returns carries a label of the input
\* annotation or UNKNOWN as its speaker_id.
C14_SpeakerIdFromAnnotation ==
    AlignerReturned =>
        \A i \in 1..Len(method_call.result.value) :
            method_call.result.value[i].speaker_id
                \in PresentLabels(method_call.args.diarization) \cup {"UNKNOWN"}

\* C14 witness: the aligner has returned one utterance with a label of the
\* annotation and one with UNKNOWN.
C14_Witness ==
    /\ AlignerReturned
    /\ Len(method_call.result.value) = 2
    /\ method_call.result.value[1].speaker_id
           \in PresentLabels(method_call.args.diarization)
    /\ method_call.result.value[2].speaker_id = "UNKNOWN"

\* C17: an ASR segment whose greatest overlap is positive gets a label
\* whose overlap with it is the greatest one; the segment [5,12] against
\* A = (0,10), B = (10,20) has overlap 5 s with A, 2 s with B and gets A.
C17_SpeakerMaximizesOverlap ==
    AlignerReturned =>
        \A i \in 1..Len(method_call.result.value) :
            LET s == method_call.args.asr_segments[i]
                d == method_call.args.diarization
                speaker_id == method_call.result.value[i].speaker_id
            IN  /\ MaxOverlap(s, d) > 0 => speaker_id \in Maximizers(s, d)
                /\ ( /\ s.start = Seconds(5) /\ s.end = Seconds(12)
                     /\ d.segments =
                           << [start |-> 0, end |-> Seconds(10), speaker |-> "A"],
                              [start |-> Seconds(10), end |-> Seconds(20), speaker |-> "B"] >> )
                    => /\ Overlap(s, "A", d.segments) = Seconds(5)
                       /\ Overlap(s, "B", d.segments) = Seconds(2)
                       /\ speaker_id = "A"

\* C17 witness: the aligner has answered for the segment [5,12] against
\* A = (0,10), B = (10,20).
C17_Witness ==
    /\ AlignerReturned
    /\ Len(method_call.result.value) = 1
    /\ method_call.args.asr_segments[1].start = Seconds(5)
    /\ method_call.args.asr_segments[1].end = Seconds(12)
    /\ method_call.args.diarization.segments =
           << [start |-> 0, end |-> Seconds(10), speaker |-> "A"],
              [start |-> Seconds(10), end |-> Seconds(20), speaker |-> "B"] >>
    /\ method_call.result.value[1].speaker_id = "A"

\* C18: when several labels share the greatest, positive overlap with an
\* ASR segment, the segment gets the one of them whose first track comes
\* first in the annotation.
C18_TieGoesToFirstOccurrence ==
    AlignerReturned =>
        \A i \in 1..Len(method_call.result.value) :
            LET s == method_call.args.asr_segments[i]
                d == method_call.args.diarization
                tied == Maximizers(s, d)
            IN  (MaxOverlap(s, d) > 0 /\ Cardinality(tied) >= 2)
                => /\ method_call.result.value[i].speaker_id \in tied
                   /\ \A k \in tied :
                         FirstTrack(method_call.result.value[i].speaker_id, d)
                            <= FirstTrack(k, d)

\* C19: an ASR segment that overlaps no label of the annotation, an
\* annotation without tracks included, gets the speaker_id UNKNOWN, and
\* the aligner returns.
C19_NoOverlapIsUnknown ==
    (method_call.method = "assign_speakers_to_segments" /\ method_call.returned)
        => /\ Len(method_call.result.value) = Len(method_call.args.asr_segments)
           /\ \A i \in 1..Len(method_call.result.value) :
                 MaxOverlap(method_call.args.asr_segments[i],
                            method_call.args.diarization) = 0
                 => method_call.result.value[i].speaker_id = "UNKNOWN"

\* C19 witness: the aligner has returned UNKNOWN for a segment that
\* overlaps none of the tracks of an annotation that has tracks.
C19_Witness ==
    /\ AlignerReturned
    /\ Len(method_call.args.diarization.segments) >= 1
    /\ Len(method_call.result.value) >= 1
    /\ MaxOverlap(method_call.args.asr_segments[1], method_call.args.diarization) = 0
    /\ method_call.result.value[1].speaker_id = "UNKNOWN"

\* the other case of C19: the annotation has no tracks
C19_WitnessEmpty ==
    /\ AlignerReturned
    /\ method_call.args.diarization.segments = <<>>
    /\ Len(method_call.result.value) >= 1
    /\ method_call.result.value[1].speaker_id = "UNKNOWN"

\* C15: compute_wer_metrics returns WER 0 when reference and hypothesis
\* are the same text with words in it, WER 0 when neither has a word, and
\* WER 1 when the reference has words and the hypothesis has none.
C15_WerEdgeCases ==
    LET ref == JoinTexts(method_call.args.reference_texts)
        hyp == JoinTexts(method_call.args.hypothesis_texts)
        r == method_call.result
    IN  Returned("compute_wer_metrics") =>
           /\ (ref # <<>> /\ hyp = ref) => (~r.exc /\ r.WER.num = 0)
           /\ (ref = <<>> /\ hyp = <<>>) => (~r.exc /\ r.WER.num = 0)
           /\ (ref # <<>> /\ hyp = <<>>) => (~r.exc /\ r.WER.num = r.WER.den)

\* C16: compute_diarization_metrics returns a JER in [0,1] and a DER >= 0,
\* whether or not the metrics library could be imported.
C16_MetricRanges ==
    Returned("compute_diarization_metrics") =>
        /\ 0 <= method_call.result.JER.num
        /\ method_call.result.JER.num <= method_call.result.JER.den
        /\ 0 <= method_call.result.DER.num

\* ---- time strings, as the claims state them
\* the two digits of str from place i on, as a number
TwoDigits(str, i) == 10 * DigitValue(str[i]) + DigitValue(str[i + 1])

\* str has the form MM:SS
IsMMSS(str) ==
    /\ Len(str) = 5 /\ str[3] = ":"
    /\ \A i \in {1, 2, 4, 5} : IsDigit(str[i])

\* str has the form HH:MM:SS
IsHHMMSS(str) ==
    /\ Len(str) = 8 /\ str[3] = ":" /\ str[6] = ":"
    /\ \A i \in {1, 2, 4, 5, 7, 8} : IsDigit(str[i])

\* 60*MM + SS, or 3600*HH + 60*MM + SS, in ticks
ClaimedSeconds(str) ==
    IF IsMMSS(str)
    THEN Seconds(60 * TwoDigits(str, 1) + TwoDigits(str, 4))
    ELSE Seconds(3600 * TwoDigits(str, 1) + 60 * TwoDigits(str, 4) + TwoDigits(str, 7))

\* a time of an entry is a string of one of the two forms
IsTimeString(t) ==
    t.kind = "string" /\ (IsMMSS(t.string) \/ IsHHMMSS(t.string))

\* C20: when the times of every entry of a ground truth are strings of
\* the form MM:SS or HH:MM:SS, json_to_annotation returns, and for every
\* entry the annotation has a segment from 60*MM+SS (3600*HH+60*MM+SS) of
\* its start_time to that of its end_time.
C20_TimeStringsParsed ==
    LET entries == method_call.args.ground_truth.segments.list
        r == method_call.result
    IN  (Returned("json_to_annotation")
           /\ \A i \in 1..Len(entries) :
                 IsTimeString(entries[i].start_time) /\ IsTimeString(entries[i].end_time))
        => /\ ~r.exc
           /\ \A i \in 1..Len(entries) :
                 \E j \in 1..Len(r.annotation.segments) :
                    /\ r.annotation.segments[j].start =
                           ClaimedSeconds(entries[i].start_time.string)
                    /\ r.annotation.segments[j].end =
                           ClaimedSeconds(entries[i].end_time.string)

\* ---- missing fields, as the claims state them
\* a time of an entry as the claims read it, absent standing for default
ClaimedTime(t, default) ==
    IF t.kind = "absent" THEN default
    ELSE IF t.kind = "number" THEN t.number
    ELSE ClaimedSeconds(t.string)

\* the track the claims have an entry converted to
ClaimedTrack(entry) ==
    LET start == ClaimedTime(entry.start_time, 0)
    IN  [ start |-> start,
          end |-> ClaimedTime(entry.end_time, start + Seconds(1)),
          speaker |-> IF entry.speaker.given THEN entry.speaker.label ELSE "UNKNOWN" ]

\* the times of the entry that are there can be read: numbers, a start
\* string of one of the two forms next to a missing end_time, an end string
\* of one of the two forms next to a start_time that is no string
ReadableEntry(entry) ==
    /\ entry.start_time.kind = "string" =>
          IsTimeString(entry.start_time) /\ entry.end_time.kind = "absent"
    /\ entry.end_time.kind = "string" => IsTimeString(entry.end_time)

\* C21: json_to_annotation returns for a ground truth whose entries miss
\* fields, and every entry is in the annotation with a missing start_time
\* read as 0, a missing end_time as the start in seconds plus 1 (the start
\* given as a number or as a time string) and a missing speaker as
\* UNKNOWN; a later entry over the same segment replaces the label.
C21_MissingFieldsDefaulted ==
    LET entries == method_call.args.ground_truth.segments.list
        r == method_call.result
    IN  (Returned("json_to_annotation")
           /\ \A i \in 1..Len(entries) : ReadableEntry(entries[i]))
        => /\ ~r.exc
           /\ \A i \in 1..Len(entries) :
                 LET c == ClaimedTrack(entries[i])
                     same == { j \in 1..Len(entries) :
                                  /\ ClaimedTrack(entries[j]).start = c.start
                                  /\ ClaimedTrack(entries[j]).end = c.end }
                     last_same == CHOOSE j \in same : \A k \in same : k <= j
                 IN  c.start < c.end =>
                        \E t \in 1..Len(r.annotation.segments) :
                           r.annotation.segments[t] =
                              [c EXCEPT !.speaker = ClaimedTrack(entries[last_same]).speaker]

\* C22: _get_speaker_name returns the name of a participant whose id is
\* the label when there is one, also for a label with a default name;
\* otherwise the default name of the label when it has one; otherwise
\* 'Speaker ' followed by the label.  The session is left as it was.
C22_SpeakerNameOrder ==
    LET participants == method_call.args.session.participants
        k == method_call.args.speaker_id
        matching == { i \in 1..Len(participants) : participants[i].id = k }
        DefaultName == [ l \in {"SPEAKER_00", "SPEAKER_01", "SPEAKER_02"} |->
                           IF l = "SPEAKER_00" THEN <<"Interviewer">>
                           ELSE IF l = "SPEAKER_01" THEN <<"Interview Subject">>
                           ELSE <<"Additional Speaker">> ]
    IN  Returned("_get_speaker_name") =>
           /\ method_call.result.session = method_call.args.session
           /\ IF matching # {}
              THEN \E i \in matching : method_call.result.value = participants[i].name
              ELSE IF k \in DOMAIN DefaultName
                   THEN method_call.result.value = DefaultName[k]
                   ELSE method_call.result.value = << "Speaker", k >>

\* C22 witness: a participant of the session carries the id SPEAKER_00,
\* which has a default name, and the participant's name was returned.
C22_Witness ==
    /\ Returned("_get_speaker_name")
    /\ method_call.args.speaker_id = "SPEAKER_00"
    /\ method_call.args.session.participants =
           << [id |-> "SPEAKER_05", name |-> <<"Carol">>],
              [id |-> "SPEAKER_00", name |-> <<"Alice">>] >>
    /\ method_call.result.value = <<"Alice">>

\* the other cases of C22: the default name, and the generic name
C22_WitnessDefault ==
    /\ Returned("_get_speaker_name")
    /\ method_call.args.speaker_id = "SPEAKER_01"
    /\ method_call.result.value = <<"Interview Subject">>

C22_WitnessGeneric ==
    /\ Returned("_get_speaker_name")
    /\ method_call.args.speaker_id = "SPEAKER_07"
    /\ method_call.result.value = << "Speaker", "SPEAKER_07" >>

\* C23: when transcribe_full_audio returns, its result is, for a response
\* with segments, one ASR segment per segment of the response in the same
\* order, and for a response without segments the single ASR segment from
\* 0 to the duration of the audio holding the full text; it is not empty.
C23_TranscriptionSegments ==
    LET t == method_call.args.transcript
        r == method_call.result
    IN  (Returned("transcribe_full_audio") /\ ~r.exc) =>
           /\ r.value # <<>>
           /\ IF t.segments.given /\ t.segments.list # <<>>
              THEN /\ Len(r.value) = Len(t.segments.list)
                   /\ \A i \in 1..Len(r.value) :
                         /\ r.value[i].start = t.segments.list[i].start
                         /\ r.value[i].end = t.segments.list[i].end
                         /\ r.value[i].text = t.segments.list[i].text
              ELSE r.value = << [ start |-> 0,
                                  end |-> method_call.args.audio_duration,
                                  text |-> t.text ] >>

\* C24: when end_recording_session returns status completed, the bundle
\* written for the session holds the utterances returned to the caller, in
\* their order, the audio path returned to the caller, and the id, the
\* project id and the participants of the session that was ended.
C24_BundleHoldsResult ==
    [][ (last'.op = "end_recording_session" /\ last'.outcome = "returned")
          => LET sid == last'.sid
                 bundle == storage'[sid].transcription
             IN  /\ last'.status = "completed"
                 /\ bundle.exists
                 /\ bundle.data.utterances = last'.utterances
                 /\ bundle.data.audio_file_path = last'.audio_file_path
                 /\ bundle.data.session_id = sid
                 /\ bundle.data.project_id = active_sessions[sid].project_id
                 /\ bundle.data.participants = active_sessions[sid].participants ]_vars

\* C24 witness: an end call over two tracks has returned two utterances
\* for a session started with participants of its own, and the bundle
\* holds both.
C24_Witness ==
    /\ IsEnd /\ last.outcome = "returned" /\ last.status = "completed"
    /\ Len(last.utterances) = 2
    /\ storage[last.sid].transcription.exists
    /\ Len(storage[last.sid].transcription.data.utterances) = 2
    /\ storage[last.sid].transcription.data.participants = CustomParticipants
    /\ storage[last.sid].transcription.data.audio_file_path = AudioPath(last.sid)

\* C25: the overlap of two intervals a and b, taken as the aligner takes
\* it, is the same both ways round, is not negative and is at most the
\* shorter of the two durations.
C25_OverlapSymmetricBounded ==
    LET a == method_call.args.a
        b == method_call.args.b
        r == method_call.result
    IN  Returned("segment_overlap") =>
           /\ r.ab = r.ba
           /\ r.ab >= 0
           /\ r.ab <= Min(Max(0, a.end - a.start), Max(0, b.end - b.start))

\* C25 witness: two intervals that overlap in part, by 5 s.
C25_Witness ==
    /\ Returned("segment_overlap")
    /\ method_call.args.a = [start |-> 0, end |-> Seconds(10)]
    /\ method_call.args.b = [start |-> Seconds(5), end |-> Seconds(20)]
    /\ method_call.result.ab = Seconds(5)

\* C26: the duration of every utterance of the aligner, in milliseconds,
\* is (end - start) * 1000 of its ASR segment rounded to the nearest
\* integer, for every segment with start < end.
C26_DurationRounded ==
    AlignerReturned =>
        \A i \in 1..Len(method_call.result.value) :
            LET s == method_call.args.asr_segments[i]
                ticks == s.end - s.start
                duration == method_call.result.value[i].duration
            IN  s.start < s.end =>
                   /\ 10 * duration - ticks <= 5
                   /\ ticks - 10 * duration <= 5

\* C27: an end_recording_session call that returns an error result leaves
\* the session registered with the chunk buffer it had and writes no
\* transcript bundle, and an end call on the same id that comes next is
\* served and runs over the same chunks.
C27_FailedEndLeavesSessionForRetry ==
    [][ /\ (last'.op = "end_recording_session" /\ last'.outcome = "error")
             => /\ last'.sid \in DOMAIN active_sessions'
                /\ active_sessions'[last'.sid].audio_chunks =
                       active_sessions[last'.sid].audio_chunks
                /\ last'.combined = Join(active_sessions'[last'.sid].audio_chunks)
                /\ ~storage'[last'.sid].transcription.exists
        /\ (IsEnd /\ last.outcome = "error"
              /\ last'.op = "end_recording_session" /\ last'.sid = last.sid)
             => /\ last'.outcome # "session_not_found"
                /\ last'.combined = last.combined ]_vars

\* C27 witness: after an end call that returned an error result, the next
\* end call on the same session, which holds a chunk, has completed it.
C27_Witness ==
    /\ IsEnd /\ last.pre_status = "processing"
    /\ last.outcome = "returned" /\ last.status = "completed"
    /\ last.combined # <<>>
    /\ storage[last.sid].transcription.exists

\* C28: once a session has been completed, it is no longer registered and
\* its audio asset holds every chunk that was ever acknowledged for it
\* with 'stored', in order, the chunks acknowledged after an end call that
\* failed included.
C28_NoAcknowledgedChunkLost ==
    \A s \in SessionIds :
        storage[s].transcription.exists =>
            /\ s \notin DOMAIN active_sessions
            /\ storage[s].audio = [exists |-> TRUE, data |-> Join(accepted[s])]

\* C28 witness: a session that holds an acknowledged chunk and was left in
\* status processing by a failed end has been completed.
C28_Witness ==
    /\ IsEnd /\ last.outcome = "returned" /\ last.status = "completed"
    /\ last.pre_status = "processing"
    /\ accepted[last.sid] # <<>>
    /\ storage[last.sid].transcription.exists

\* the other case of C28: a chunk was acknowledged for a session that an
\* end call had put in status processing
C28_WitnessChunk ==
    /\ IsChunk /\ last.status = "stored"
    /\ last.pre_status = "processing"

\* C29: POST /conversation/end/{session_id} answers with status completed
\* only when end_recording_session returned status completed; it does not
\* when the service returned an error result.
C29_EndpointReportsCompletionOnlyIfCompleted ==
    LET service == method_call.args.service
        response == method_call.result
    IN  (Returned("end_conversation_recording") /\ response.status = "completed")
        => /\ ~service.raised
           /\ ~service.result.error
           /\ service.result.status = "completed"

\* C30: with the database in use, after any save_project calls the cache
\* holds a project exactly if the table holds it, with the same fields; a
\* save_project that returned False left its project out of the cache, and
\* load_project answers None for a project the table does not hold.
C30_CacheAndDatabaseInSync ==
    db_service.use_database =>
        /\ \A p \in ProjectIds :
              /\ (p \in DOMAIN db_service.memory_projects) <=> (p \in DOMAIN database)
              /\ p \in DOMAIN database => db_service.memory_projects[p] = database[p]
        /\ (db_call.op = "save_project" /\ ~db_call.saved)
              => db_call.id \notin DOMAIN db_service.memory_projects
        /\ (db_call.op = "load_project" /\ db_call.id \notin DOMAIN database)
              => db_call.value = NoProjectData

=============================================================================
